---- MODULE Spec2Model ----
(***************************************************************************)
(* GitHubArbitrageAgent (src/agent.py): search four fixed queries, score   *)
(* every returned repository record, keep the records scoring above 70,    *)
(* sort them by score and print a plan for the top five.                   *)
(*                                                                         *)
(* JSON values: a record is a function from the field names it has to      *)
(* their values; a nullable text field is JStr(s) or JNull; updated_at is  *)
(* the parsed instant in hours since the epoch; stargazers_count is a      *)
(* natural number.  Text is a TLA+ string (a sequence of characters).      *)
(***************************************************************************)
EXTENDS Integers, Sequences, FiniteSets, TLC

VARIABLES
    catalog,        \* the records the search service holds during this run
    now,            \* datetime.now(): the evaluation instant, in hours
    pc,             \* position of find_arbitrage_opportunities
    qi,             \* index of `query` in search_queries
    requests,       \* the GET requests sent so far (their q parameter)
    outcome,        \* what the last requests.get produced
    repos,          \* records of the current query not yet scanned
    opportunities,  \* the list built by the scan loop
    todo,           \* sorted(opportunities)[:5] not yet executed
    printed,        \* the plans printed so far
    fault,          \* the unhandled exception that ended the run, or "none"
    failed,         \* the last query answered with a status other than 200, or 0
    expected,       \* the records scoring above 70 among those returned so far
    fetched,        \* how many records the searches have returned so far
    missing,        \* expected fields some returned record lacks
    upc,            \* position of the single-record pipeline
    repo,           \* the record handed to the single-record pipeline
    result,         \* what calculate_arbitrage_value produced for repo
    enhancements,   \* what identify_enhancements produced for repo
    strategies      \* what create_monetization_strategy produced for repo

vars == <<catalog, now, pc, qi, requests, outcome, repos, opportunities, todo, printed,
          fault, failed, expected, fetched, missing, upc, repo, result, enhancements, strategies>>

runVars == <<pc, qi, requests, outcome, repos, opportunities, todo, printed,
             fault, failed, expected, fetched, missing>>

unitVars == <<upc, repo, result, enhancements, strategies>>

----------------------------------------------------------------------------
(* JSON values and text *)

JNull == [type |-> "null"]

JStr(s) == [type |-> "str", val |-> s]

\* dict.get(key, default)
Get(d, key, default) == IF key \in DOMAIN d THEN d[key] ELSE default

UpperCase == "ABCDEFGHIJKLMNOPQRSTUVWXYZ"

LowerCase == "abcdefghijklmnopqrstuvwxyz"

\* the lower-case letter of each upper-case letter
LowerOf ==
    [c \in {SubSeq(UpperCase, i, i) : i \in 1..Len(UpperCase)} |->
       LET i == CHOOSE j \in 1..Len(UpperCase) : SubSeq(UpperCase, j, j) = c
       IN  SubSeq(LowerCase, i, i)]

LowerChar(c) == IF c \in DOMAIN LowerOf THEN LowerOf[c] ELSE c

RECURSIVE Lower(_)
\* str.lower()
Lower(s) ==
    IF s = "" THEN ""
    ELSE LowerChar(SubSeq(s, 1, 1)) \o Lower(SubSeq(s, 2, Len(s)))

\* kw in s (substring test)
Contains(kw, s) ==
    \E i \in 1..(Len(s) - Len(kw) + 1) : SubSeq(s, i, i + Len(kw) - 1) = kw

Min(a, b) == IF a <= b THEN a ELSE b

RECURSIVE SumSeq(_)
SumSeq(s) == IF s = <<>> THEN 0 ELSE Head(s) + SumSeq(Tail(s))

----------------------------------------------------------------------------
(* calculate_arbitrage_value *)

popular_langs == <<"Python", "JavaScript", "TypeScript", "Go">>

value_keywords == <<"api", "automation", "ai", "saas", "tool", "bot">>

SeqToSet(s) == {s[i] : i \in DOMAIN s}

\* (datetime.now(tz) - updated).days: timedelta.days is the floor
DaysOld(t, updated) == (t - updated) \div 24

\* sum(1 for kw in value_keywords if kw in desc.lower())
KeywordMatches(desc) ==
    LET low == Lower(desc)
    IN  SumSeq([i \in DOMAIN value_keywords |->
                  IF Contains(value_keywords[i], low) THEN 1 ELSE 0])

ClampWrap(score) == score % 100

NoClamp(score) == score

\* min(score, 100)
Clamp(score) == Min(score, 100)

Raised(name) == [fault |-> name, score |-> 0]

Returned(score) == [fault |-> "none", score |-> score]

calculate_arbitrage_value_lenient(r, t) ==
    LET s1 == IF Get(r, "language", JNull) \in
                   {JStr(l) : l \in SeqToSet(popular_langs)}
              THEN 20 ELSE 0
        s2 == IF "updated_at" \in DOMAIN r /\ DaysOld(t, r["updated_at"]) < 30
              THEN s1 + 15 ELSE s1
        desc == Get(r, "description", JStr(""))
        text == IF desc = JNull THEN "" ELSE desc.val
        s3 == s2 + KeywordMatches(text) * 10
        s4 == IF Get(r, "stargazers_count", 0) < 50 /\ Len(text) > 20
              THEN s3 + 25 ELSE s3
    IN  Returned(Clamp(s4))

\* The body of calculate_arbitrage_value, statement by statement; a failing
\* subscript or attribute access raises and nothing is returned.
calculate_arbitrage_value(r, t) ==
    LET s1 == IF Get(r, "language", JNull) \in
                   {JStr(l) : l \in SeqToSet(popular_langs)}
              THEN 20 ELSE 0
    IN
    IF "updated_at" \notin DOMAIN r THEN Raised("KeyError")
    ELSE
    LET s2 == IF DaysOld(t, r["updated_at"]) < 30 THEN s1 + 15 ELSE s1
        desc == Get(r, "description", JStr(""))
    IN
    IF desc = JNull THEN Raised("AttributeError")
    ELSE
    LET s3 == s2 + KeywordMatches(desc.val) * 10
    IN
    IF "stargazers_count" \notin DOMAIN r THEN Raised("KeyError")
    ELSE
    LET s4 == IF r["stargazers_count"] < 50 /\ Len(desc.val) > 20
              THEN s3 + 25 ELSE s3
    IN  Returned(Clamp(s4))

----------------------------------------------------------------------------
(* identify_enhancements and create_monetization_strategy *)

ApiEnhancements ==
    <<"Add rate limiting and caching",
      "Create premium tier with advanced features",
      "Add webhook support">>

ToolEnhancements ==
    <<"Add web interface", "Create Docker version", "Add batch processing">>

PythonEnhancements ==
    <<"Add async support", "Create CLI version", "Add configuration management">>

\* 'kw' in repo.get('description', '').lower(); None has no lower()
DescHas(r, kw) ==
    LET desc == Get(r, "description", JStr(""))
    IN  desc # JNull /\ Contains(kw, Lower(desc.val))

DescFaults(r) == Get(r, "description", JStr("")) = JNull

identify_enhancements_elif(r) ==
    IF DescFaults(r) THEN [fault |-> "AttributeError", val |-> <<>>]
    ELSE
    LET e1 == IF DescHas(r, "api") THEN ApiEnhancements ELSE <<>>
        e2 == IF DescHas(r, "api") THEN e1
              ELSE IF DescHas(r, "tool") THEN e1 \o ToolEnhancements ELSE e1
        e3 == IF Get(r, "language", JNull) = JStr("Python")
              THEN e2 \o PythonEnhancements ELSE e2
    IN  [fault |-> "none", val |-> e3]

identify_enhancements(r) ==
    IF DescFaults(r) THEN [fault |-> "AttributeError", val |-> <<>>]
    ELSE
    LET e0 == <<>>
        e1 == IF DescHas(r, "api")
              THEN Append(Append(Append(e0, ApiEnhancements[1]),
                                 ApiEnhancements[2]), ApiEnhancements[3])
              ELSE e0
        e2 == IF DescHas(r, "tool")
              THEN Append(Append(Append(e1, ToolEnhancements[1]),
                                 ToolEnhancements[2]), ToolEnhancements[3])
              ELSE e1
        e3 == IF Get(r, "language", JNull) = JStr("Python")
              THEN Append(Append(Append(e2, PythonEnhancements[1]),
                                 PythonEnhancements[2]), PythonEnhancements[3])
              ELSE e2
    IN  [fault |-> "none", val |-> e3]

create_monetization_strategy(r) ==
    IF DescFaults(r) THEN [fault |-> "AttributeError", val |-> <<>>]
    ELSE
    LET s0 == <<>>
        s1 == IF DescHas(r, "api")
              THEN Append(Append(s0, "Freemium API with rate limits"),
                          "Enterprise hosting service")
              ELSE s0
        s2 == IF DescHas(r, "tool")
              THEN Append(Append(s1, "Premium features subscription"),
                          "Custom implementation service")
              ELSE s1
        s3 == Append(Append(s2, "Consulting and integration services"),
                     "Training and documentation packages")
    IN  [fault |-> "none", val |-> s3]

----------------------------------------------------------------------------
(* search_repositories *)

search_queries ==
    <<"api wrapper created:>2024-01-01 stars:1..50",
      "automation tool created:>2024-01-01 stars:1..100",
      "saas template created:>2024-01-01 stars:1..75",
      "ai assistant created:>2024-01-01 stars:1..200">>

per_page == 20

\* params of the GET request
SearchParams(query) == [q |-> query, sort |-> "updated", per_page |-> per_page]

NoOutcome == [kind |-> "none"]

\* requests.get raised: no response was obtained
TransportError == [kind |-> "exception"]

\* requests.get returned a response; json = FALSE when the body is not JSON
HttpResponse(status, json, body) ==
    [kind |-> "response", status |-> status, json |-> json, body |-> body]

search_repositories_raise_for_status(o) ==
    IF o.kind = "exception" THEN [fault |-> "ConnectionError", val |-> <<>>]
    ELSE IF o.status = 200
         THEN IF ~o.json THEN [fault |-> "JSONDecodeError", val |-> <<>>]
              ELSE [fault |-> "none", val |-> Get(o.body, "items", <<>>)]
         ELSE [fault |-> "HTTPError", val |-> <<>>]

\* What search_repositories does with the outcome o of its one requests.get:
\* an exception of requests.get or of response.json() is not caught.
search_repositories(o) ==
    IF o.kind = "exception" THEN [fault |-> "ConnectionError", val |-> <<>>]
    ELSE IF o.status = 200
         THEN IF ~o.json THEN [fault |-> "JSONDecodeError", val |-> <<>>]
              ELSE [fault |-> "none", val |-> Get(o.body, "items", <<>>)]
         ELSE [fault |-> "none", val |-> <<>>]

----------------------------------------------------------------------------
(* find_arbitrage_opportunities and execute_arbitrage_strategy *)

QualifiesAtLeast(value_score) == value_score >= 70

\* if value_score > 70
Qualifies(value_score) == value_score > 70

Opportunity(r, value_score, enh) ==
    [repo |-> r, value_score |-> value_score, enhancement_potential |-> enh]

RECURSIVE InsertDesc(_, _)
\* x goes behind every element whose score is not smaller (stable)
InsertDesc(x, s) ==
    IF s = <<>> THEN <<x>>
    ELSE IF Head(s).value_score >= x.value_score
         THEN <<Head(s)>> \o InsertDesc(x, Tail(s))
         ELSE <<x>> \o s

RECURSIVE SortedFrom(_, _)
SortedFrom(acc, s) ==
    IF s = <<>> THEN acc ELSE SortedFrom(InsertDesc(Head(s), acc), Tail(s))

Unsorted(opps) == opps

\* sorted(opportunities, key=lambda x: x['value_score'], reverse=True)
SortedByScore(opps) == SortedFrom(<<>>, opps)

TopSix(s) == SubSeq(s, 1, Min(6, Len(s)))

\* [:5]
TopFive(s) == SubSeq(s, 1, Min(5, Len(s)))

\* The plan execute_arbitrage_strategy builds and prints for an opportunity.
ArbitragePlan(opp) ==
    [original_repo |-> opp.repo["html_url"],
     fork_name |-> opp.repo["name"] \o "-enhanced",
     enhancements |-> opp.enhancement_potential,
     monetization_strategy |-> create_monetization_strategy(opp.repo).val,
     timeline |-> "7-14 days",
     estimated_value |-> "$" \o ToString(opp.value_score * 50) \o "-"
                             \o ToString(opp.value_score * 200)]

\* execute_arbitrage_strategy: the fault it raises, or the plan it prints
execute_arbitrage_strategy(opp) ==
    IF "name" \notin DOMAIN opp.repo \/ "html_url" \notin DOMAIN opp.repo
    THEN [fault |-> "KeyError", val |-> <<>>]
    ELSE IF create_monetization_strategy(opp.repo).fault # "none"
    THEN [fault |-> create_monetization_strategy(opp.repo).fault, val |-> <<>>]
    ELSE [fault |-> "none",
          val |-> <<[name |-> opp.repo["name"], value_score |-> opp.value_score,
                     plan |-> ArbitragePlan(opp)]>>]

NextPositionAbortOnFailure(i) ==
    IF i < Len(search_queries) /\ i # failed THEN "request" ELSE "process"

\* for query in search_queries: where the loop goes after query i
NextPosition(i) == IF i < Len(search_queries) THEN "request" ELSE "process"

----------------------------------------------------------------------------
(* Inputs: the records the search can return and the evaluation instant *)

\* hours since the epoch at which the run evaluates datetime.now()
EvalTime == 24 * 20000

Absent == <<>>

Present(v) == <<v>>

\* A search result item with the given optional fields.
Record(name, language, age, description, stars) ==
    LET dom == {"html_url"}
               \cup (IF name = Absent THEN {} ELSE {"name"})
               \cup (IF language = Absent THEN {} ELSE {"language"})
               \cup (IF age = Absent THEN {} ELSE {"updated_at"})
               \cup (IF description = Absent THEN {} ELSE {"description"})
               \cup (IF stars = Absent THEN {} ELSE {"stargazers_count"})
    IN  [k \in dom |->
           CASE k = "html_url" -> "https://github.com/o/r"
             [] k = "name" -> name[1]
             [] k = "language" -> language[1]
             [] k = "updated_at" -> EvalTime - age[1]
             [] k = "description" -> description[1]
             [] k = "stargazers_count" -> stars[1]]

Descriptions ==
    {"",
     "api",
     "api tool",
     "email maintainers",
     "a command line clien",
     "a command line client",
     "a command line api client",
     "AI saas automation bot",
     "A simple api automation tool for bots",
     "SaaS API automation tool bot kit",
     "AI SaaS API automation tool bot"}

UnitLanguages ==
    {Absent, Present(JNull), Present(JStr("Python")), Present(JStr("Go")),
     Present(JStr("Ruby"))}

\* hours between updated_at and the evaluation instant
UnitAges ==
    {Absent, Present(0 - 1), Present(5 * 24), Present(30 * 24 - 1),
     Present(30 * 24), Present(200 * 24)}

UnitDescriptions ==
    {Absent, Present(JNull)} \cup {Present(JStr(d)) : d \in Descriptions}

UnitStars == {Absent, Present(5), Present(49), Present(50), Present(500)}

UnitRecords ==
    {Record(Present("r"), l, a, d, s) :
        l \in UnitLanguages, a \in UnitAges, d \in UnitDescriptions,
        s \in UnitStars}

\* Python, 5 days old, four keywords, 10 stars: 20 + 15 + 40 + 25 = 100
RepoTop ==
    Record(Present("top"), Present(JStr("Python")), Present(5 * 24),
           Present(JStr("A simple api automation tool for bots")), Present(10))

\* the same with 500 stars: 75
RepoMid ==
    Record(Present("mid"), Present(JStr("Python")), Present(5 * 24),
           Present(JStr("A simple api automation tool for bots")), Present(500))

\* Go, 5 days old, one keyword, 10 stars: 20 + 15 + 10 + 25 = 70
RepoEdge ==
    Record(Present("edge"), Present(JStr("Go")), Present(5 * 24),
           Present(JStr("a command line api client")), Present(10))

\* a record without updated_at
RepoNoUpdated ==
    Record(Present("stale"), Present(JStr("Python")), Absent,
           Present(JStr("A simple api automation tool for bots")), Present(10))

\* a record without name, scoring 75
RepoNoName ==
    Record(Absent, Present(JStr("Python")), Present(5 * 24),
           Present(JStr("A simple api automation tool for bots")), Present(500))

RunRecords == {RepoTop, RepoMid, RepoEdge, RepoNoUpdated, RepoNoName}

\* the contents of the search service explored: in the first every record
\* has a name and one lacks updated_at, the second holds a record without name
Catalogs ==
    {{RepoTop, RepoMid, RepoEdge, RepoNoUpdated},
     {RepoTop, RepoEdge, RepoNoName}}

\* most records one run's searches return in total
MaxRecords == 6

\* most records one response carries in the runs explored
MaxItems == 2

FailureStatuses == {401, 403}

RECURSIVE SeqsUpTo(_, _)
SeqsUpTo(S, n) ==
    IF n <= 0 THEN {<<>>}
    ELSE LET shorter == SeqsUpTo(S, n - 1)
         IN  shorter \cup {Append(q, x) : q \in {t \in shorter : Len(t) = n - 1},
                                          x \in S}

\* the item lists of at most n records
ItemLists == [c \in Catalogs |-> [n \in 0..MaxItems |-> SeqsUpTo(c, n)]]

\* What requests.get can produce when the service holds the records c and at
\* most n of them may come back.
Outcomes(c, n) ==
    {TransportError}
    \cup {HttpResponse(st, TRUE, [message |-> "error"]) : st \in FailureStatuses}
    \cup {HttpResponse(200, FALSE, [message |-> "error"])}
    \cup {HttpResponse(200, TRUE, [total_count |-> 0])}
    \cup {HttpResponse(200, TRUE, [total_count |-> Len(its), items |-> its]) :
            its \in ItemLists[c][Min(Min(per_page, MaxItems), n)]}

----------------------------------------------------------------------------
(* The run: agent.find_arbitrage_opportunities() *)

ExpectedFields == {"name", "html_url", "updated_at", "stargazers_count"}

MissingFields(items) ==
    {f \in ExpectedFields : \E i \in DOMAIN items : f \notin DOMAIN items[i]}

\* whether each record the search can return scores above 70
Above70 ==
    [r \in RunRecords |->
        /\ calculate_arbitrage_value(r, EvalTime).fault = "none"
        /\ calculate_arbitrage_value(r, EvalTime).score > 70]

\* the returned records whose score is above 70, in the order returned
ScoresAbove70(items) == SelectSeq(items, LAMBDA r : Above70[r])

NoResult == [fault |-> "unset", score |-> 0]

NoList == [fault |-> "unset", val |-> <<>>]

Init ==
    /\ catalog \in Catalogs
    /\ now = EvalTime
    /\ pc = "request"
    /\ qi = 1
    /\ requests = <<>>
    /\ outcome = NoOutcome
    /\ repos = <<>>
    /\ opportunities = <<>>
    /\ todo = <<>>
    /\ printed = <<>>
    /\ fault = "none"
    /\ failed = 0
    /\ expected = <<>>
    /\ fetched = 0
    /\ missing = {}
    /\ upc = "idle"
    /\ repo = [html_url |-> "none"]
    /\ result = NoResult
    /\ enhancements = NoList
    /\ strategies = NoList

\* line 45: the one GET of search_repositories(search_queries[qi]) goes out
SendRequest ==
    /\ pc = "request"
    /\ requests' = Append(requests, SearchParams(search_queries[qi]))
    /\ pc' = "await"
    /\ outcome' = NoOutcome
    /\ UNCHANGED <<catalog, now, qi, repos, opportunities, todo, printed, fault, failed,
                   expected, fetched, missing>>
    /\ UNCHANGED unitVars

\* lines 45-48 and 26: requests.get ends, search_repositories returns or
\* raises, its value is bound to repos
Respond ==
    /\ pc = "await"
    /\ \E o \in Outcomes(catalog, MaxRecords - fetched) :
         LET res == search_repositories(o)
         IN  /\ outcome' = o
             /\ IF res.fault # "none"
                THEN /\ pc' = "crashed"
                     /\ fault' = res.fault
                     /\ UNCHANGED <<repos, failed, expected, fetched, missing>>
                ELSE /\ pc' = "scan"
                     /\ repos' = res.val
                     /\ failed' = IF o.status # 200 THEN qi
                                  ELSE failed
                     /\ expected' = expected \o ScoresAbove70(res.val)
                     /\ fetched' = fetched + Len(res.val)
                     /\ missing' = missing \cup MissingFields(res.val)
                     /\ UNCHANGED fault
    /\ UNCHANGED <<catalog, now, qi, requests, opportunities, todo, printed>>
    /\ UNCHANGED unitVars

\* lines 27-34: one iteration of `for repo in repos`
ScanRepo ==
    /\ pc = "scan"
    /\ repos # <<>>
    /\ LET r == Head(repos)
           v == calculate_arbitrage_value(r, now)
           e == identify_enhancements(r)
       IN  /\ repos' = Tail(repos)
           /\ IF v.fault # "none"
              THEN /\ pc' = "crashed"
                   /\ fault' = v.fault
                   /\ UNCHANGED opportunities
              ELSE IF ~Qualifies(v.score)
              THEN UNCHANGED <<pc, fault, opportunities>>
              ELSE IF e.fault # "none"
              THEN /\ pc' = "crashed"
                   /\ fault' = e.fault
                   /\ UNCHANGED opportunities
              ELSE /\ opportunities' =
                        Append(opportunities, Opportunity(r, v.score, e.val))
                   /\ UNCHANGED <<pc, fault>>
    /\ outcome' = NoOutcome
    /\ UNCHANGED <<catalog, now, qi, requests, todo, printed, failed, expected, fetched,
                   missing>>
    /\ UNCHANGED unitVars

\* line 25: the records of this query are exhausted, the query loop advances
NextQuery ==
    /\ pc = "scan"
    /\ repos = <<>>
    /\ pc' = NextPosition(qi)
    /\ qi' = IF NextPosition(qi) = "request" THEN qi + 1 ELSE qi
    /\ outcome' = NoOutcome
    /\ UNCHANGED <<catalog, now, requests, repos, opportunities, todo, printed, fault,
                   failed, expected, fetched, missing>>
    /\ UNCHANGED unitVars

\* line 37: sorted(opportunities, ...)[:5]
Rank ==
    /\ pc = "process"
    /\ todo' = TopFive(SortedByScore(opportunities))
    /\ pc' = "execute"
    /\ UNCHANGED <<catalog, now, qi, requests, outcome, repos, opportunities, printed,
                   fault, failed, expected, fetched, missing>>
    /\ UNCHANGED unitVars

\* line 38: execute_arbitrage_strategy(opp) for the next of the top five
Execute ==
    /\ pc = "execute"
    /\ todo # <<>>
    /\ LET x == execute_arbitrage_strategy(Head(todo))
       IN  /\ todo' = Tail(todo)
           /\ IF x.fault # "none"
              THEN /\ pc' = "crashed"
                   /\ fault' = x.fault
                   /\ UNCHANGED printed
              ELSE /\ printed' = printed \o x.val
                   /\ UNCHANGED <<pc, fault>>
    /\ UNCHANGED <<catalog, now, qi, requests, outcome, repos, opportunities, failed,
                   expected, fetched, missing>>
    /\ UNCHANGED unitVars

\* the loop of line 37 is exhausted: find_arbitrage_opportunities returns
Finish ==
    /\ pc = "execute"
    /\ todo = <<>>
    /\ pc' = "done"
    /\ UNCHANGED <<catalog, now, qi, requests, outcome, repos, opportunities, todo,
                   printed, fault, failed, expected, fetched, missing>>
    /\ UNCHANGED unitVars

Next ==
    \/ SendRequest
    \/ Respond
    \/ ScanRepo
    \/ NextQuery
    \/ Rank
    \/ Execute
    \/ Finish

Spec == Init /\ [][Next]_vars

----------------------------------------------------------------------------
(* One record through the pipeline: score, advise if it qualifies, plan *)

InitUnit ==
    /\ catalog = {}
    /\ now = EvalTime
    /\ pc = "idle"
    /\ qi = 1
    /\ requests = <<>>
    /\ outcome = NoOutcome
    /\ repos = <<>>
    /\ opportunities = <<>>
    /\ todo = <<>>
    /\ printed = <<>>
    /\ fault = "none"
    /\ failed = 0
    /\ expected = <<>>
    /\ fetched = 0
    /\ missing = {}
    /\ upc = "input"
    /\ repo \in UnitRecords
    /\ result = NoResult
    /\ enhancements = NoList
    /\ strategies = NoList

\* line 28
Calculate ==
    /\ upc = "input"
    /\ result' = calculate_arbitrage_value(repo, now)
    /\ upc' = IF result'.fault # "none" THEN "crashed" ELSE "scored"
    /\ UNCHANGED <<catalog, now, repo, enhancements, strategies>>
    /\ UNCHANGED runVars

\* lines 29-33
Advise ==
    /\ upc = "scored"
    /\ Qualifies(result.score)
    /\ enhancements' = identify_enhancements(repo)
    /\ upc' = IF enhancements'.fault # "none" THEN "crashed" ELSE "advised"
    /\ UNCHANGED <<catalog, now, repo, result, strategies>>
    /\ UNCHANGED runVars

\* line 115
Monetize ==
    /\ upc = "advised"
    /\ strategies' = create_monetization_strategy(repo)
    /\ upc' = IF strategies'.fault # "none" THEN "crashed" ELSE "planned"
    /\ UNCHANGED <<catalog, now, repo, result, enhancements>>
    /\ UNCHANGED runVars

NextUnit ==
    \/ Calculate
    \/ Advise
    \/ Monetize

UnitSpec == InitUnit /\ [][NextUnit]_vars

----------------------------------------------------------------------------
(* Properties *)

Http200(o) == o.kind = "response" /\ o.status = 200

HttpFailure(o) == o.kind = "response" /\ o.status # 200

OppRepos == [i \in DOMAIN opportunities |-> opportunities[i].repo]

\* C1 as stated: after the one request of a search, whatever its outcome,
\* nothing was raised, and the value returned is the records under 'items'
\* on HTTP 200 and the empty sequence on every other outcome (a status other
\* than 200 and a network error alike).
C1_NeverRaises ==
    outcome # NoOutcome =>
        /\ fault = "none"
        /\ pc = "scan"
        /\ repos = IF Http200(outcome) THEN Get(outcome.body, "items", <<>>)
                   ELSE <<>>

\* C1 amended: each search sends exactly one request (no retry); an HTTP
\* response with a status other than 200 makes it return the empty sequence
\* without raising; HTTP 200 with a JSON body makes it return the records
\* under 'items' (none if the key is absent); a request that ends without a
\* response, or a 200 body that is not JSON, raises out of the search and
\* ends the run.
C1_EmptyOnHttpFailure ==
    /\ Len(requests) = (IF pc = "request" THEN qi - 1 ELSE qi)
    /\ \A i \in DOMAIN requests : requests[i] = SearchParams(search_queries[i])
    /\ HttpFailure(outcome) =>
          fault = "none" /\ pc = "scan" /\ repos = <<>>
    /\ (Http200(outcome) /\ outcome.json) =>
          /\ fault = "none"
          /\ pc = "scan"
          /\ repos = Get(outcome.body, "items", <<>>)
    /\ outcome.kind = "exception" => pc = "crashed" /\ fault = "ConnectionError"
    /\ (Http200(outcome) /\ ~outcome.json) =>
          pc = "crashed" /\ fault = "JSONDecodeError"

\* the second search was answered 403 and returned the empty sequence
C1_Witness ==
    /\ HttpFailure(outcome)
    /\ outcome.status = 403
    /\ qi = 2
    /\ pc = "scan"
    /\ repos = <<>>

\* C2: a search answered with a status other than 200 does not end the run:
\* the run goes on scanning, the queries are sent in the fixed order, each
\* once, all four before anything is ranked, and once the scan is over the
\* opportunities are exactly the returned records scoring above 70.
C2_FailedSearchDoesNotAbort ==
    /\ HttpFailure(outcome) => pc = "scan" /\ fault = "none"
    /\ \A i \in DOMAIN requests : requests[i].q = search_queries[i]
    /\ pc \in {"process", "execute", "done"} =>
          /\ Len(requests) = Len(search_queries)
          /\ OppRepos = expected
    /\ (failed # 0 /\ pc \in {"request", "await", "scan"}) =>
          /\ fault = "none"
          /\ Len(requests) >= failed

\* the first search failed, the later ones supplied plans, the run completed
C2_Witness ==
    /\ pc = "done"
    /\ failed = 1
    /\ Len(requests) = 4
    /\ printed # <<>>

\* C4: every opportunity, and every plan printed, carries the score of its
\* record and that score is strictly above 70.
C4_OnlyAbove70 ==
    /\ \A i \in DOMAIN opportunities :
          /\ opportunities[i].value_score > 70
          /\ opportunities[i].value_score =
                calculate_arbitrage_value(opportunities[i].repo, now).score
    /\ \A i \in DOMAIN todo : todo[i].value_score > 70
    /\ \A i \in DOMAIN printed : printed[i].value_score > 70

\* a record scoring exactly 70 was returned and scanned, it is no opportunity,
\* and plans were printed
C4_Witness ==
    /\ pc = "done"
    /\ RepoEdge \in catalog
    /\ calculate_arbitrage_value(RepoEdge, now).score = 70
    /\ Len(opportunities) < fetched
    /\ printed # <<>>

\* C5: the plans are printed in non-increasing order of score.
C5_PrintedDescending ==
    \A i, j \in DOMAIN printed :
        i < j => printed[i].value_score >= printed[j].value_score

\* a lower-scoring record was found before a higher-scoring one, and both
\* were printed
C5_Witness ==
    /\ pc = "done"
    /\ \E i, j \in DOMAIN opportunities :
          i < j /\ opportunities[i].value_score < opportunities[j].value_score
    /\ \E i, j \in DOMAIN printed :
          i < j /\ printed[i].value_score > printed[j].value_score

Above(s, v) == Cardinality({i \in DOMAIN s : s[i].value_score > v})

\* C6: at most five plans are printed; a completed run with k opportunities
\* has printed min(k, 5) plans; and every opportunity scoring above a printed
\* plan is printed too.
C6_AtMostFive ==
    /\ Len(printed) <= 5
    /\ pc = "done" => Len(printed) = Min(Len(opportunities), 5)
    /\ \A j \in DOMAIN printed :
          Above(opportunities, printed[j].value_score)
             = Above(printed, printed[j].value_score)

\* six records qualified, five plans were printed, the one left out scores
\* below a printed one
C6_Witness ==
    /\ pc = "done"
    /\ Len(opportunities) = 6
    /\ Len(printed) = 5
    /\ \E i \in DOMAIN opportunities :
          opportunities[i].value_score < printed[1].value_score

ScorerFields == {"updated_at", "stargazers_count"}

Unscorable(r) == ~(ScorerFields \subseteq DOMAIN r)

\* C10 as stated: once a returned record lacks an expected field, no plan is
\* printed and the run does not complete.
C10_NoPlanAfterMalformed ==
    missing # {} => printed = <<>> /\ pc # "done"

\* C10 amended: once a returned record lacks a field the scorer reads
\* (updated_at or stargazers_count), scanning it raises and ends the run, the
\* run never ranks or executes anything, and no plan is printed.
C10_NoPlanAfterUnscorable ==
    (missing \cap ScorerFields # {}) =>
        /\ printed = <<>>
        /\ pc \in {"scan", "crashed"}
        /\ (\A i \in DOMAIN repos : ~Unscorable(repos[i])) =>
              pc = "crashed" /\ fault = "KeyError"

\* a later query returned a record without updated_at after earlier records
\* had qualified: the run ended with nothing printed
C10_Witness ==
    /\ pc = "crashed"
    /\ fault = "KeyError"
    /\ "updated_at" \in missing
    /\ qi >= 2
    /\ opportunities # <<>>
    /\ printed = <<>>

----------------------------------------------------------------------------
(* Properties of the scorer and the advisor *)

\* the description the scorer is to read: none counts as the empty text
TextOf(r) ==
    LET desc == Get(r, "description", JNull)
    IN  IF desc = JNull THEN "" ELSE desc.val

Scored == upc \in {"scored", "advised", "planned"}

\* C3: a returned score is an integer between 0 and 100.
C3_ScoreInRange ==
    Scored => result.fault = "none" /\ result.score \in 0..100

\* every bonus fires: 20 + 15 + 60 + 25 = 120, returned as 100
C3_Witness ==
    /\ upc = "scored"
    /\ Get(repo, "language", JNull) = JStr("Python")
    /\ DaysOld(now, repo["updated_at"]) < 30
    /\ KeywordMatches(TextOf(repo)) = 6
    /\ repo["stargazers_count"] < 50
    /\ Len(TextOf(repo)) > 20
    /\ result.score = 100

Bonus(b, n) == IF b THEN n ELSE 0

\* the score C7 gives
C7_Formula(r, t) ==
    Min(Bonus(Get(r, "language", JNull) \in
                {JStr("Python"), JStr("JavaScript"), JStr("TypeScript"),
                 JStr("Go")}, 20)
        + Bonus(DaysOld(t, r["updated_at"]) < 30, 15)
        + 10 * Cardinality({k \in {"api", "automation", "ai", "saas", "tool",
                                   "bot"} : Contains(k, Lower(TextOf(r)))})
        + Bonus(r["stargazers_count"] < 50 /\ Len(TextOf(r)) > 20, 25),
        100)

\* C7: every record that carries updated_at and stargazers_count is scored,
\* without fault, by the formula, a missing description counting as the
\* empty text.
C7_ScoreFormula ==
    (upc # "input" /\ ScorerFields \subseteq DOMAIN repo) =>
        /\ result.fault = "none"
        /\ result.score = C7_Formula(repo, now)

KeywordSet(d) ==
    {i \in DOMAIN value_keywords : Contains(value_keywords[i], Lower(d))}

\* d2 matches the keywords d1 matches and one more, nothing else changes
OneMoreKeyword(d1, d2) ==
    /\ KeywordSet(d1) \subseteq KeywordSet(d2)
    /\ Cardinality(KeywordSet(d2)) = Cardinality(KeywordSet(d1)) + 1
    /\ (Len(d1) > 20) = (Len(d2) > 20)

WithDescription(r, d) ==
    [k \in DOMAIN r \cup {"description"} |->
        IF k = "description" THEN JStr(d) ELSE r[k]]

\* C8: giving a scored record a description that matches one more keyword,
\* every other bonus condition unchanged, never lowers its score.
C8_KeywordMonotonic ==
    upc = "scored" =>
        \A d \in Descriptions :
            OneMoreKeyword(TextOf(repo), d) =>
                /\ calculate_arbitrage_value(WithDescription(repo, d), now).fault
                      = "none"
                /\ calculate_arbitrage_value(WithDescription(repo, d), now).score
                      >= result.score

\* the record is already at the clamp and a description with one more
\* keyword exists
C8_Witness ==
    /\ upc = "scored"
    /\ result.score = 100
    /\ KeywordMatches(TextOf(repo)) = 5
    /\ \E d \in Descriptions : OneMoreKeyword(TextOf(repo), d)

C9_WitnessNone ==
    /\ upc = "advised"
    /\ enhancements.val = <<>>

====
